---- MODULE Spec2Model ----
(***************************************************************************)
(* Model of src/1-src/optimizer.py: OptimizerManager (early stopping,      *)
(* optimizer construction and state restore), WarmUpLR and                 *)
(* SchedulerManager (warmup-to-main handoff).                              *)
(*                                                                         *)
(* Losses and metrics are fixed-point numbers in tenths (10.0 is 100,      *)
(* 0.5 is 5); on the values used here the float comparisons of the source  *)
(* give the same answers as the integer comparisons of the model.          *)
(***************************************************************************)
EXTENDS Integers, Sequences, FiniteSets, TLC

\* ------------------------------------------------------------------ bounds
\* Longest sequence of check_early_stopping calls explored.
MaxCalls == 6
\* Most optimizer.step() calls explored on one optimizer instance.
MaxOptSteps == 2
\* Most update_optimizer_state calls explored.
MaxRebuilds == 1
\* Most scheduler_step calls explored, and the largest current_epoch passed.
MaxSchedCalls == 4
MaxEpoch == 3
\* Largest warmup_steps passed to create_scheduler.
MaxWarmup == 2
\* Largest step index a WarmUpLR used on its own is stepped to.
MaxWarmupEpoch == 12
\* Most evaluation points (scheduler_step and check_early_stopping calls)
\* of a whole training run.
MaxRunEvals == 2

\* ------------------------------------------------------------ state
\* Early stopping (OptimizerManager). es_calls is a history variable: the
\* val_loss arguments of the check_early_stopping calls so far, oldest first.
VARIABLES best_loss, early_stop_counter, early_stop, patience,
          min_loss_improvement, es_calls

\* Optimizer lifecycle (OptimizerManager).
\*   optimizers        every torch optimizer instance built so far; an
\*                     instance is named by its index in this sequence
\*   optimizer         the instance self.optimizer refers to (0: no manager)
\*   model_parameters  self.model_parameters
\*   optimizer_params  self.optimizer_params, a function from hyperparameter
\*                     names to values
\*   grads             whether the parameters hold gradients (set by backward)
\*   om_call           history: the latest OptimizerManager call and how it
\*                     ended
VARIABLES optimizers, optimizer, model_parameters, optimizer_params, grads,
          om_call

\* Schedules (SchedulerManager and the schedules it owns).
\*   sm_optimizer         SchedulerManager.optimizer: the instance the
\*                        schedules read and write (0: no manager)
\*   evaluation_interval  SchedulerManager.evaluation_interval
\*   scheduler            the main schedule (kind "None" until created)
\*   warmup_scheduler     the WarmUpLR schedule (kind "None" until created)
\*   is_warmup            SchedulerManager.is_warmup
\*   sm_call              history: the latest SchedulerManager call, its
\*                        arguments and what it did
\*   sm_hist              history over the scheduler_step calls: how many
\*                        (calls); how many succeeded with current_epoch
\*                        above the warmup length (past_calls); how many
\*                        succeeded with no warmup active or current_epoch
\*                        above the warmup length (free_calls); the latest
\*                        current_epoch; whether the epochs passed so far
\*                        never decreased (increasing)
VARIABLES sm_optimizer, evaluation_interval, scheduler, warmup_scheduler,
          is_warmup, sm_call, sm_hist

esVars == <<best_loss, early_stop_counter, early_stop, patience,
            min_loss_improvement, es_calls>>

omVars == <<optimizers, optimizer, model_parameters, optimizer_params, grads,
            om_call>>

smVars == <<sm_optimizer, evaluation_interval, scheduler, warmup_scheduler,
            is_warmup, sm_call, sm_hist>>

vars == <<esVars, omVars, smVars>>

\* float("inf"), the initial best_loss (optimizer.py:86).
Inf == 1000000

\* Validation losses fed to check_early_stopping, in tenths.
Losses == {80, 90, 94, 95, 96, 100}
\* early_stopping.patience and early_stopping.min_loss_improvement values.
PatienceChoices == {1, 2, 3}
MinImprovementChoices == {0, 5}

\* best_loss - min_loss_improvement in float arithmetic: inf - x = inf.
Threshold(best, minImp) == IF best = Inf THEN Inf ELSE best - minImp

IsImprovementNonStrict(val_loss, best, minImp) ==
    val_loss <= Threshold(best, minImp)

IsImprovementNoMargin(val_loss, best, minImp) ==
    val_loss < best

\* optimizer.py:172-175. best_loss is never None after __init__, so the
\* first disjunct of the source's test is always false.
IsImprovement(val_loss, best, minImp) ==
    val_loss < Threshold(best, minImp)

\* optimizer.py:177 and 182.
NextCounter(improved, counter) == IF improved THEN 0 ELSE counter + 1

NextEarlyStopRecomputed(stop, counter, pat) == counter >= pat

NextEarlyStopOffByOne(stop, counter, pat) == IF counter > pat THEN TRUE ELSE stop

\* optimizer.py:189-190: the flag is only ever set, never cleared.
NextEarlyStop(stop, counter, pat) == IF counter >= pat THEN TRUE ELSE stop

\* OptimizerManager.__init__, optimizer.py:84-89.
InitES ==
    /\ patience \in PatienceChoices
    /\ min_loss_improvement \in MinImprovementChoices
    /\ best_loss = Inf
    /\ early_stop_counter = 0
    /\ early_stop = FALSE
    /\ es_calls = <<>>

\* OptimizerManager.check_early_stopping(val_loss), optimizer.py:165-195.
check_early_stopping(val_loss) ==
    /\ Len(es_calls) < MaxCalls
    /\ LET improved == IsImprovement(val_loss, best_loss, min_loss_improvement)
           counter  == NextCounter(improved, early_stop_counter)
       IN  /\ best_loss' = IF improved THEN val_loss ELSE best_loss
           /\ early_stop_counter' = counter
           /\ early_stop' = NextEarlyStop(early_stop, counter, patience)
    /\ es_calls' = Append(es_calls, val_loss)
    /\ UNCHANGED <<patience, min_loss_improvement>>
    /\ UNCHANGED <<omVars, smVars>>

\* ---------------------------------------------------- optimizer lifecycle
\* The flat hyperparameter mapping handed to create_optimizer.
HyperKeys == {"lr", "momentum", "weight_decay", "betas"}

\* training.lr and optimizer.weight_decay of the configuration, in units of
\* 1/48 of the configured rate (so that halving and the warmup ramp stay
\* integral) and in ten-thousandths.
ConfigLr == 48
ConfigWeightDecay == 5

\* initialize_optimizer_manager, optimizer.py:35-48: all four keys, always.
ConfigParams ==
    [k \in HyperKeys |->
        CASE k = "lr" -> ConfigLr
          [] k = "momentum" -> 9
          [] k = "weight_decay" -> ConfigWeightDecay
          [] OTHER -> 95]    \* betas, kept as one opaque value

\* Key sets of the mappings handed to OptimizerManager directly.
DirectKeySets == {{"lr"}, {"lr", "momentum", "weight_decay"}, HyperKeys}

\* The optimizer classes of torch.optim, looked up by name at
\* optimizer.py:97, and one name the library does not define.
Families == {"Adadelta", "Adagrad", "Adam", "AdamW", "SparseAdam", "Adamax",
             "ASGD", "SGD", "RAdam", "Rprop", "RMSprop", "NAdam", "LBFGS"}
OptimizerTypes == Families \cup {"Lion"}
\* The names passed when OptimizerManager is called directly: one family of
\* each branch of the filter at optimizer.py:102-114, and the unknown name.
DirectTypes == {"SGD", "AdamW", "Adadelta", "Lion"}

\* Which of HyperKeys the constructor of each torch.optim class takes; any
\* other keyword makes the call at optimizer.py:116 raise TypeError.
Accepts(family) ==
    CASE family \in {"Adam", "AdamW", "Adamax", "RAdam", "NAdam"} ->
             {"lr", "weight_decay", "betas"}
      [] family \in {"SGD", "RMSprop"} -> {"lr", "weight_decay", "momentum"}
      [] family \in {"Adadelta", "Adagrad", "ASGD"} -> {"lr", "weight_decay"}
      [] family = "SparseAdam" -> {"lr", "betas"}
      [] OTHER -> {"lr"}

Restrict(f, keys) == [k \in keys |-> f[k]]

\* optimizer.py:102-114: the keys of filtered_params.
FilteredKeys(optimizer_type, keys) ==
    IF optimizer_type \in {"Adam", "AdamW"} THEN keys \ {"momentum"}
    ELSE IF optimizer_type = "SGD" THEN keys \ {"betas"}
    ELSE keys

\* A parameter collection is a record [kind, groups, exhausted]: a list
\* (re-iterable) of `groups` parameter groups, or a one-shot generator such
\* as model.parameters() (optimizer.py:52).
NoParameters == [kind |-> "list", groups |-> 1, exhausted |-> FALSE]

\* Number of groups list(parameters) yields now.
Yields(parameters) ==
    IF parameters.kind = "generator" /\ parameters.exhausted
    THEN 0 ELSE parameters.groups

\* The collection after the constructor iterated it.
Iterated(parameters) ==
    IF parameters.kind = "generator"
    THEN [parameters EXCEPT !.exhausted = TRUE] ELSE parameters

\* The value of a parameter-group key that is absent. initial_lr is absent
\* until a learning-rate schedule is attached to the optimizer.
Unset == 0 - 1

\* A freshly constructed optimizer: every group carries the constructor's
\* hyperparameters (library defaults where a key is absent) and the
\* parameters it updates (params: group g holds the g-th parameter object of
\* the collection); the per-parameter state (step counts, moment buffers) is
\* empty: steps = 0.
FreshOptimizer(family, kwargs, n) ==
    [family |-> family,
     param_groups |->
        [g \in 1..n |->
            [lr |-> kwargs["lr"],
             weight_decay |-> IF "weight_decay" \in DOMAIN kwargs
                              THEN kwargs["weight_decay"] ELSE 0,
             initial_lr |-> Unset,
             params |-> g]],
     steps |-> 0]

NoOptimizer == FreshOptimizer("none", ConfigParams, 1)

\* OptimizerManager.create_optimizer, optimizer.py:91-116. The result names
\* the outcome, the keyword arguments handed to the constructor (ctor says
\* whether it was called at all), whether the constructor got as far as
\* iterating the parameters, and the instance built.
create_optimizer(parameters, optimizer_type, params) ==
    LET kwargs == Restrict(params, FilteredKeys(optimizer_type, DOMAIN params))
        none   == [result |-> "ok", ctor |-> FALSE, kwargs |-> params,
                   iterated |-> FALSE, instance |-> NoOptimizer]
    IN  IF optimizer_type \notin Families
        THEN [none EXCEPT !.result = "UnsupportedOptimizer"]
        ELSE IF ~(DOMAIN kwargs \subseteq Accepts(optimizer_type))
        THEN [none EXCEPT !.result = "UnexpectedKeyword", !.ctor = TRUE,
                          !.kwargs = kwargs]
        ELSE IF Yields(parameters) = 0
        THEN [none EXCEPT !.result = "EmptyParameterList", !.ctor = TRUE,
                          !.kwargs = kwargs, !.iterated = TRUE]
        ELSE [result |-> "ok", ctor |-> TRUE, kwargs |-> kwargs,
              iterated |-> TRUE,
              instance |-> FreshOptimizer(optimizer_type, kwargs,
                                          Yields(parameters))]

\* The arguments of a call that takes no snapshot.
NoSnapshot == [param_groups |-> <<>>, steps |-> 0]

NoOMCall ==
    [op |-> "none", result |-> "ok", ctor |-> FALSE, type |-> "none",
     kwargs |-> ConfigParams, given |-> ConfigParams,
     snapshot |-> NoSnapshot, restore |-> {}]

\* The constructor call recorded in om_call: c is create_optimizer's result.
Construction(op, optimizer_type, params, c) ==
    [NoOMCall EXCEPT !.op = op, !.result = c.result, !.ctor = c.ctor,
                     !.type = optimizer_type, !.kwargs = c.kwargs,
                     !.given = params]

\* A call that builds no optimizer.
PlainCall(op) == [NoOMCall EXCEPT !.op = op]

\* OptimizerManager.__init__, optimizer.py:67-89 (the early-stopping fields
\* it sets are those of InitEarlyStopping). When create_optimizer raises, no
\* manager exists afterwards.
OptimizerManagerInit(parameters, optimizer_type, params) ==
    /\ optimizer = 0
    /\ om_call.op = "none"
    /\ LET c == create_optimizer(parameters, optimizer_type, params)
       IN  /\ om_call' = Construction("__init__", optimizer_type, params, c)
           /\ model_parameters' =
                 IF c.iterated THEN Iterated(parameters) ELSE parameters
           /\ optimizer_params' = params
           /\ IF c.result = "ok"
              THEN /\ optimizers' = Append(optimizers, c.instance)
                   /\ optimizer' = Len(optimizers) + 1
              ELSE UNCHANGED <<optimizers, optimizer>>
    /\ UNCHANGED grads

\* initialize_optimizer_manager, optimizer.py:33-59: the manager gets
\* model.parameters(), a generator over one group, and all four keys.
initialize_optimizer_manager(optimizer_type) ==
    /\ OptimizerManagerInit(
           [kind |-> "generator", groups |-> 1, exhausted |-> FALSE],
           optimizer_type, ConfigParams)
    /\ UNCHANGED <<esVars, smVars>>

\* OptimizerManager(...) called directly with a list of parameter groups.
OptimizerManagerDirect(n, optimizer_type, keys) ==
    /\ OptimizerManagerInit(
           [kind |-> "list", groups |-> n, exhausted |-> FALSE],
           optimizer_type, Restrict(ConfigParams, keys))
    /\ UNCHANGED <<esVars, smVars>>

\* State snapshots (state_dict values) offered to update_optimizer_state:
\* the hyperparameters of one or two groups, taken with a schedule attached
\* (initial_lr is set) or without one (initial_lr is absent), and the
\* per-parameter state. In a snapshot the params of a group are positions
\* (from 0), not parameter objects.
SnapshotLrs == {12, 24}
SnapshotGroups ==
    [lr : SnapshotLrs, weight_decay : {ConfigWeightDecay},
     initial_lr : {ConfigLr, Unset}, params : {0}]
Snapshots ==
    [param_groups :
        {<<g>> : g \in SnapshotGroups}
        \cup {<<g, [h EXCEPT !.params = 1]>> :
                 <<g, h>> \in {gh \in SnapshotGroups \X SnapshotGroups :
                                  /\ gh[1].initial_lr = gh[2].initial_lr
                                  /\ gh[1].lr <= gh[2].lr}},
     steps : {0, 3}]
\* params_to_restore; None is replaced by the empty list at
\* optimizer.py:125-126.
RestoreChoices == {{}, {"lr"}, {"lr", "initial_lr"}}

\* torch Optimizer.state_dict, the serialization update_optimizer_state
\* consumes: the groups with their parameters replaced by positions, and
\* the per-parameter state.
state_dict(instance) ==
    [param_groups |->
        [g \in DOMAIN instance.param_groups |->
            [instance.param_groups[g] EXCEPT !.params = g - 1]],
     steps |-> instance.steps]

\* torch Optimizer.load_state_dict, called at optimizer.py:136: it refuses a
\* snapshot whose parameter groups do not match the optimizer's.
Loadable(instance, snapshot) ==
    Len(snapshot.param_groups) = Len(instance.param_groups)

LoadStateDictGroupsOnly(instance, snapshot) ==
    [instance EXCEPT !.param_groups =
        [g \in DOMAIN instance.param_groups |->
            [snapshot.param_groups[g] EXCEPT
                !.params = instance.param_groups[g].params]]]

\* load_state_dict: every group becomes the snapshot's group, keeping the
\* optimizer's own parameter objects, and the per-parameter state becomes
\* the snapshot's.
LoadStateDict(instance, snapshot) ==
    [instance EXCEPT !.param_groups =
        [g \in DOMAIN instance.param_groups |->
            [snapshot.param_groups[g] EXCEPT
                !.params = instance.param_groups[g].params]],
                     !.steps = snapshot.steps]

\* The string "Undefined", which optimizer.py:143-146 writes into a group
\* for a name the snapshot's first group does not hold.
Undefined == 0 - 2

\* optimizer_state_dict["param_groups"][0].get(param_name, "Undefined").
SnapshotValue(snapshot, name) ==
    IF snapshot.param_groups[1][name] = Unset
    THEN Undefined ELSE snapshot.param_groups[1][name]

RestoreParamsOwnGroup(instance, snapshot, params_to_restore) ==
    [instance EXCEPT !.param_groups =
        [g \in DOMAIN instance.param_groups |->
            [name \in DOMAIN instance.param_groups[g] |->
                IF name \in params_to_restore
                   /\ snapshot.param_groups[g][name] # Unset
                THEN snapshot.param_groups[g][name]
                ELSE instance.param_groups[g][name]]]]

\* optimizer.py:139-146: every group gets, for each name in
\* params_to_restore, the value of the snapshot's first group.
RestoreParams(instance, snapshot, params_to_restore) ==
    [instance EXCEPT !.param_groups =
        [g \in DOMAIN instance.param_groups |->
            [name \in DOMAIN instance.param_groups[g] |->
                IF name \in params_to_restore
                THEN SnapshotValue(snapshot, name)
                ELSE instance.param_groups[g][name]]]]

\* OptimizerManager.update_optimizer_state, optimizer.py:118-150.
update_optimizer_state(snapshot, params_to_restore) ==
    /\ optimizer # 0
    /\ Len(optimizers) <= MaxRebuilds
    /\ LET family == optimizers[optimizer].family
           c == create_optimizer(model_parameters, family, optimizer_params)
           result == IF c.result # "ok" THEN c.result
                     ELSE IF ~Loadable(c.instance, snapshot)
                     THEN "StateDictMismatch" ELSE "ok"
           call == Construction("update_optimizer_state", family,
                                optimizer_params, c)
       IN  /\ om_call' = [call EXCEPT !.result = result,
                                      !.snapshot = snapshot,
                                      !.restore = params_to_restore]
           /\ model_parameters' =
                 IF c.iterated THEN Iterated(model_parameters)
                 ELSE model_parameters
           /\ IF c.result # "ok"
              THEN UNCHANGED <<optimizers, optimizer>>
              ELSE /\ optimizer' = Len(optimizers) + 1
                   /\ optimizers' = Append(optimizers,
                         IF Loadable(c.instance, snapshot)
                         THEN RestoreParams(
                                  LoadStateDict(c.instance, snapshot),
                                  snapshot, params_to_restore)
                         ELSE c.instance)
    /\ UNCHANGED <<optimizer_params, grads>>
    /\ UNCHANGED <<esVars, smVars>>

\* loss.backward() of the training loop: the parameters now hold gradients.
backward ==
    /\ optimizer # 0
    /\ ~grads
    /\ grads' = TRUE
    /\ om_call' = PlainCall("backward")
    /\ UNCHANGED <<optimizers, optimizer, model_parameters, optimizer_params>>
    /\ UNCHANGED <<esVars, smVars>>

\* OptimizerManager.step, optimizer.py:152-157: one update of the owned
\* optimizer; parameters without gradients are skipped.
step ==
    /\ optimizer # 0
    /\ optimizers[optimizer].steps < MaxOptSteps
    /\ optimizers' =
          IF grads
          THEN [optimizers EXCEPT ![optimizer].steps = @ + 1]
          ELSE optimizers
    /\ om_call' = PlainCall("step")
    /\ UNCHANGED <<optimizer, model_parameters, optimizer_params, grads>>
    /\ UNCHANGED <<esVars, smVars>>

\* OptimizerManager.zero_grad, optimizer.py:159-163.
zero_grad ==
    /\ optimizer # 0
    /\ grads' = FALSE
    /\ om_call' = PlainCall("zero_grad")
    /\ UNCHANGED <<optimizers, optimizer, model_parameters, optimizer_params>>
    /\ UNCHANGED <<esVars, smVars>>

\* Before any manager is built.
InitOM ==
    /\ optimizers = <<>>
    /\ optimizer = 0
    /\ model_parameters = NoParameters
    /\ optimizer_params = ConfigParams
    /\ grads = FALSE
    /\ om_call = NoOMCall

\* ------------------------------------------------------------- schedules
\* scheduler_map, optimizer.py:262-267, and one name it does not hold.
SchedulerTypes ==
    {"ReduceLROnPlateau", "StepLR", "CosineAnnealingLR", "OneCycleLR"}
SchedulerNames == SchedulerTypes \cup {"ExponentialLR"}

\* Inputs: evaluation_interval, the patience keyword of a plateau schedule,
\* the metric argument of scheduler_step (<<>> is metric=None, <<m>> a
\* value in tenths). The other schedules are built with fixed keywords:
\* StepLR(step_size=2, gamma=0.5), CosineAnnealingLR(T_max=2),
\* ReduceLROnPlateau(factor=0.5, patience=p), and OneCycleLR(total_steps=10),
\* long enough for every step explored.
EvaluationIntervals == {4, 30}
PlateauPatiences == {2, 20}
MetricArgs == {<<>>, <<10>>, <<20>>}
\* The rate a OneCycleLR step produces is left open: any of these.
OneCycleRates == {ConfigLr \div 4, ConfigLr}

\* The choices that matter for a schedule of the given kind.
RatesOf(kind) == IF kind = "OneCycleLR" THEN OneCycleRates ELSE {ConfigLr}
\* The keyword that sizes a schedule of the given kind: patience,
\* step_size, T_max or total_steps.
SizeKeywords(kind) ==
    CASE kind = "ReduceLROnPlateau" -> PlateauPatiences
      [] kind \in {"StepLR", "CosineAnnealingLR"} -> {2}
      [] OTHER -> {10}

NoSchedule ==
    [kind |-> "None", last_epoch |-> 0 - 1, base_lrs |-> <<>>,
     total_iters |-> 0, patience |-> 0, period |-> 0, best |-> Inf,
     num_bad_epochs |-> 0]

\* _LRScheduler.__init__ (run by optimizer.py:209 and :273):
\* group.setdefault("initial_lr", group["lr"]), base_lrs = the initial_lr's.
WithInitialLr(groups) ==
    [g \in DOMAIN groups |->
        IF groups[g].initial_lr = Unset
        THEN [groups[g] EXCEPT !.initial_lr = groups[g].lr]
        ELSE groups[g]]

BaseLrs(groups) == [g \in DOMAIN groups |-> groups[g].initial_lr]

\* A schedule step writes the rates it computed into the param groups.
SetLrs(groups, lrs) ==
    [g \in DOMAIN groups |-> [groups[g] EXCEPT !.lr = lrs[g]]]

WarmUpRateUnclamped(base_lr, last_epoch, total_iters) ==
    IF last_epoch = 0 - 1 THEN 0
    ELSE (base_lr * last_epoch) \div total_iters

\* WarmUpLR.get_lr for one group, optimizer.py:218-223. The division is
\* exact on the rates and lengths used (ConfigLr with lengths up to 4,
\* WarmUpBaseLrs with WarmupLengths).
WarmUpRate(base_lr, last_epoch, total_iters) ==
    IF last_epoch = 0 - 1 THEN 0
    ELSE IF last_epoch >= total_iters THEN base_lr
    ELSE (base_lr * last_epoch) \div total_iters

\* WarmUpLR.get_lr, optimizer.py:211-223.
get_lr(w) ==
    [g \in DOMAIN w.base_lrs |->
        WarmUpRate(w.base_lrs[g], w.last_epoch, w.total_iters)]

\* WarmUpLR.__init__, optimizer.py:199-209: the base class constructor
\* takes the first step (last_epoch becomes 0) and writes get_lr() into the
\* optimizer.
WarmUpLRInit(groups, total_iters) ==
    LET gs == WithInitialLr(groups)
        w  == [NoSchedule EXCEPT !.kind = "WarmUpLR", !.last_epoch = 0,
                                 !.base_lrs = BaseLrs(gs),
                                 !.total_iters = total_iters]
    IN  [schedule |-> w, groups |-> SetLrs(gs, get_lr(w))]

WarmUpStepCounting(w, groups, current_epoch) ==
    LET stepped == [w EXCEPT !.last_epoch = @ + 1]
    IN  [schedule |-> stepped, groups |-> SetLrs(groups, get_lr(stepped))]

\* warmup_scheduler.step(current_epoch), optimizer.py:297: last_epoch is set
\* to the argument and get_lr() written into the optimizer.
WarmUpStep(w, groups, current_epoch) ==
    LET stepped == [w EXCEPT !.last_epoch = current_epoch]
    IN  [schedule |-> stepped, groups |-> SetLrs(groups, get_lr(stepped))]

Max(a, b) == IF a >= b THEN a ELSE b

RescaledPatienceNoFloor(configured, interval) == configured \div interval

\* optimizer.py:276-278.
RescaledPatience(configured, interval) == Max(1, configured \div interval)

\* scheduler_cls(self.optimizer, **kwargs) and the patience rescale,
\* optimizer.py:273-278. `configured` is the sizing keyword: the patience
\* of a plateau schedule, else the schedule's period (step_size, T_max,
\* total_steps). StepLR and CosineAnnealingLR leave the rate as it is at
\* construction; ReduceLROnPlateau does not touch the groups; OneCycleLR
\* overwrites initial_lr and the rate (with `rate`).
MainInit(kind, groups, configured, interval, rate) ==
    LET s == [NoSchedule EXCEPT !.kind = kind, !.last_epoch = 0,
                                !.period = IF kind = "ReduceLROnPlateau"
                                           THEN 0 ELSE configured]
    IN  CASE kind = "ReduceLROnPlateau" ->
                [schedule |-> [s EXCEPT !.patience =
                                  RescaledPatience(configured, interval)],
                 groups |-> groups]
          [] kind = "OneCycleLR" ->
                LET gs == [g \in DOMAIN groups |->
                              [groups[g] EXCEPT !.initial_lr = rate,
                                                !.lr = rate]]
                IN  [schedule |-> [s EXCEPT !.base_lrs = BaseLrs(gs)],
                     groups |-> gs]
          [] OTHER ->
                LET gs == WithInitialLr(groups)
                IN  [schedule |-> [s EXCEPT !.base_lrs = BaseLrs(gs)],
                     groups |-> gs]

\* StepLR.get_lr with gamma = 0.5.
StepLRRate(lr, last_epoch, step_size) ==
    IF last_epoch % step_size # 0 THEN lr ELSE lr \div 2

\* CosineAnnealingLR.get_lr with T_max = 2, eta_min = 0 (recursive form).
CosineRate(lr, base_lr, last_epoch) ==
    CASE last_epoch % 4 = 1 -> lr \div 2
      [] last_epoch % 4 = 2 -> 0
      [] last_epoch % 4 = 3 -> lr + base_lr \div 2
      [] OTHER -> lr * 2

\* self.scheduler.step(**kwargs) of a schedule that takes no metric,
\* optimizer.py:311.
PlainStep(s, groups, rate) ==
    LET t == s.last_epoch + 1
        lrs == [g \in DOMAIN groups |->
                   CASE s.kind = "StepLR" ->
                           StepLRRate(groups[g].lr, t, s.period)
                     [] s.kind = "CosineAnnealingLR" ->
                           CosineRate(groups[g].lr, s.base_lrs[g], t)
                     [] OTHER -> rate]
    IN  [result |-> "ok", schedule |-> [s EXCEPT !.last_epoch = t],
         groups |-> SetLrs(groups, lrs)]

\* ReduceLROnPlateau.step(metric): mode min, relative threshold 1e-4,
\* factor 0.5, no cooldown.
PlateauStep(s, groups, m) ==
    LET better == s.best = Inf \/ m * 10000 < s.best * 9999
        bad    == IF better THEN 0 ELSE s.num_bad_epochs + 1
        reduce == bad > s.patience
    IN  [result |-> "ok",
         schedule |-> [s EXCEPT !.last_epoch = @ + 1,
                                !.best = IF better THEN m ELSE @,
                                !.num_bad_epochs = IF reduce THEN 0 ELSE bad],
         groups |-> IF reduce
                    THEN SetLrs(groups, [g \in DOMAIN groups |->
                                            groups[g].lr \div 2])
                    ELSE groups]

PlateauStepOrSkip(s, groups, metric) ==
    IF metric = <<>>
    THEN [result |-> "ok", schedule |-> s, groups |-> groups]
    ELSE PlateauStep(s, groups, metric[1])

\* optimizer.py:304-309: a plateau schedule stepped without a metric raises
\* before anything is touched.
PlateauStepOrRaise(s, groups, metric) ==
    IF metric = <<>>
    THEN [result |-> "MissingMetric", schedule |-> s, groups |-> groups]
    ELSE PlateauStep(s, groups, metric[1])

DelegatesToWarmupInverted(warm, current_epoch, total_iters) ==
    warm /\ current_epoch >= total_iters

\* optimizer.py:296.
DelegatesToWarmup(warm, current_epoch, total_iters) ==
    warm /\ current_epoch <= total_iters

NoSMCall ==
    [op |-> "none", result |-> "ok", type |-> "None", warmup_steps |-> 0,
     configured |-> 0, epoch |-> 0, metric |-> <<>>, delegate |-> "none",
     notified |-> FALSE]

NoSMHist ==
    [calls |-> 0, past_calls |-> 0, free_calls |-> 0, last_epoch |-> 0,
     increasing |-> TRUE]

\* SchedulerManager.__init__, optimizer.py:231-239, wrapping the
\* OptimizerManager's current optimizer.
SchedulerManagerInit(interval) ==
    /\ optimizer # 0
    /\ sm_optimizer = 0
    /\ sm_optimizer' = optimizer
    /\ evaluation_interval' = interval
    /\ scheduler' = NoSchedule
    /\ warmup_scheduler' = NoSchedule
    /\ is_warmup' = FALSE
    /\ UNCHANGED <<sm_call, sm_hist>>
    /\ UNCHANGED <<esVars, omVars>>

\* SchedulerManager.create_scheduler, optimizer.py:241-281. `configured` is
\* the sizing keyword of **kwargs, `rate` the rate OneCycleLR starts at.
create_scheduler(scheduler_type, warmup_steps, configured, rate) ==
    /\ sm_optimizer # 0
    /\ scheduler.kind = "None"
    /\ LET groups == optimizers[sm_optimizer].param_groups
           warm   == warmup_steps > 0
           w      == WarmUpLRInit(groups, warmup_steps)
           warmed == IF warm THEN w.groups ELSE groups
           known  == scheduler_type \in SchedulerTypes
           m      == MainInit(scheduler_type, warmed, configured,
                              evaluation_interval, rate)
       IN  /\ is_warmup' = IF warm THEN TRUE ELSE is_warmup
           /\ warmup_scheduler' = IF warm THEN w.schedule ELSE warmup_scheduler
           /\ scheduler' = IF known THEN m.schedule ELSE scheduler
           /\ optimizers' = [optimizers EXCEPT ![sm_optimizer].param_groups =
                                IF known THEN m.groups ELSE warmed]
           /\ sm_call' = [NoSMCall EXCEPT
                            !.op = "create_scheduler",
                            !.result = IF known THEN "ok"
                                       ELSE "UnsupportedScheduler",
                            !.type = scheduler_type,
                            !.warmup_steps = warmup_steps,
                            !.configured = configured]
           /\ UNCHANGED sm_hist
    /\ UNCHANGED <<sm_optimizer, evaluation_interval>>
    /\ UNCHANGED <<optimizer, model_parameters, optimizer_params, grads,
                   om_call>>
    /\ UNCHANGED esVars

\* SchedulerManager.scheduler_step, optimizer.py:283-319. `rate` is the rate
\* a OneCycleLR step produces.
scheduler_step(current_epoch, metric, rate) ==
    /\ sm_optimizer # 0
    /\ sm_hist.calls < MaxSchedCalls
    /\ LET groups == optimizers[sm_optimizer].param_groups
           current_lr == groups[1].lr
           warm == DelegatesToWarmup(is_warmup, current_epoch,
                                     warmup_scheduler.total_iters)
           r == IF scheduler.kind = "None"
                THEN [result |-> "NoScheduler", schedule |-> scheduler,
                      groups |-> groups]
                ELSE IF warm
                THEN [result |-> "ok"] @@
                     WarmUpStep(warmup_scheduler, groups, current_epoch)
                ELSE IF scheduler.kind = "ReduceLROnPlateau"
                THEN PlateauStepOrRaise(scheduler, groups, metric)
                ELSE PlainStep(scheduler, groups, rate)
           ok == r.result = "ok"
           delegate == IF scheduler.kind = "None" THEN "none"
                       ELSE IF warm THEN "warmup" ELSE "main"
           updated_lr == r.groups[1].lr
       IN  /\ warmup_scheduler' =
                 IF delegate = "warmup" THEN r.schedule ELSE warmup_scheduler
           /\ scheduler' = IF delegate = "main" THEN r.schedule ELSE scheduler
           /\ optimizers' =
                 [optimizers EXCEPT ![sm_optimizer].param_groups = r.groups]
           /\ sm_call' = [NoSMCall EXCEPT
                            !.op = "scheduler_step",
                            !.result = r.result,
                            !.epoch = current_epoch,
                            !.metric = metric,
                            !.delegate = delegate,
                            !.notified = (delegate = "main" /\ ok
                                          /\ current_lr # updated_lr)]
           /\ sm_hist' = [sm_hist EXCEPT
                            !.calls = @ + 1,
                            !.past_calls =
                               IF ok /\ current_epoch >
                                           warmup_scheduler.total_iters
                               THEN @ + 1 ELSE @,
                            !.free_calls =
                               IF ok /\ (~is_warmup
                                         \/ current_epoch >
                                               warmup_scheduler.total_iters)
                               THEN @ + 1 ELSE @,
                            !.increasing =
                               @ /\ (sm_hist.calls = 0
                                     \/ current_epoch >= sm_hist.last_epoch),
                            !.last_epoch = current_epoch]
    /\ UNCHANGED <<sm_optimizer, evaluation_interval, is_warmup>>
    /\ UNCHANGED <<optimizer, model_parameters, optimizer_params, grads,
                   om_call>>
    /\ UNCHANGED esVars

\* Before any SchedulerManager is built.
InitSM ==
    /\ sm_optimizer = 0
    /\ evaluation_interval = 1
    /\ scheduler = NoSchedule
    /\ warmup_scheduler = NoSchedule
    /\ is_warmup = FALSE
    /\ sm_call = NoSMCall
    /\ sm_hist = NoSMHist

\* ------------------------------------------------------ specifications
NextES == \E val_loss \in Losses : check_early_stopping(val_loss)

\* Early stopping alone: one manager, any sequence of check_early_stopping.
InitSpecES ==
    /\ InitES
    /\ InitOM
    /\ InitSM

SpecES == InitSpecES /\ [][NextES]_vars

NextOM ==
    \/ \E t \in OptimizerTypes : initialize_optimizer_manager(t)
    \/ \E n \in {1, 2}, t \in DirectTypes, keys \in DirectKeySets :
          OptimizerManagerDirect(n, t, keys)
    \/ \E snapshot \in Snapshots, names \in RestoreChoices :
          update_optimizer_state(snapshot, names)
    \/ backward
    \/ step
    \/ zero_grad

\* Optimizer lifecycle: construction, then any interleaving of training
\* steps and state restores.
InitSpecOM ==
    /\ InitES
    /\ patience = 3
    /\ min_loss_improvement = 5
    /\ InitOM
    /\ InitSM

SpecOM == InitSpecOM /\ [][NextOM]_vars

\* An OptimizerManager built over a list of n parameter groups.
Constructed(optimizer_type, n) ==
    LET parameters == [kind |-> "list", groups |-> n, exhausted |-> FALSE]
        c == create_optimizer(parameters, optimizer_type, ConfigParams)
    IN  /\ optimizers = <<c.instance>>
        /\ optimizer = 1
        /\ model_parameters = parameters
        /\ optimizer_params = ConfigParams
        /\ grads = FALSE
        /\ om_call = Construction("__init__", optimizer_type, ConfigParams, c)

NextSM ==
    \/ \E interval \in EvaluationIntervals : SchedulerManagerInit(interval)
    \/ \E name \in SchedulerNames, warmup_steps \in 0..MaxWarmup :
          \E configured \in SizeKeywords(name),
             rate \in RatesOf(name) :
             create_scheduler(name, warmup_steps, configured, rate)
    \/ \E current_epoch \in 0..MaxEpoch, metric \in MetricArgs,
          rate \in RatesOf(scheduler.kind) :
          scheduler_step(current_epoch, metric, rate)

\* Schedules: an SGD optimizer exists; the SchedulerManager is built over
\* it, create_scheduler is called until it succeeds, and scheduler_step is
\* called with any epochs and metrics.
InitSpecSM ==
    /\ InitES
    /\ patience = 3
    /\ min_loss_improvement = 5
    /\ Constructed("SGD", 1)
    /\ InitSM

SpecSM == InitSpecSM /\ [][NextSM]_vars

\* A WarmUpLR used on its own, outside any manager: an SGD optimizer over
\* one or two parameter groups, each with its own rate (in tenths: 10 is
\* 1.0), and warmup lengths that include the 10 steps of the ramp example.
WarmUpBaseLrs == {10, 40}
WarmupLengths == {1, 2, 5, 10}

\* torch.optim.SGD(groups) with a rate per group: lrs is the sequence of
\* the groups' rates.
GroupedOptimizer(lrs) ==
    LET o == FreshOptimizer("SGD", [lr |-> lrs[1]], Len(lrs))
    IN  [o EXCEPT !.param_groups =
            [g \in DOMAIN lrs |-> [o.param_groups[g] EXCEPT !.lr = lrs[g]]]]

\* WarmUpLR(optimizer, total_iters), optimizer.py:199-209.
WarmUpLRNew(total_iters) ==
    /\ warmup_scheduler.kind = "None"
    /\ LET w == WarmUpLRInit(optimizers[1].param_groups, total_iters)
       IN  /\ warmup_scheduler' = w.schedule
           /\ optimizers' = [optimizers EXCEPT ![1].param_groups = w.groups]
    /\ UNCHANGED <<sm_optimizer, evaluation_interval, scheduler, is_warmup,
                   sm_call, sm_hist>>
    /\ UNCHANGED <<optimizer, model_parameters, optimizer_params, grads,
                   om_call>>
    /\ UNCHANGED esVars

\* WarmUpLR.step(epoch), the call of optimizer.py:297 made directly: the
\* step index becomes epoch and get_lr() (optimizer.py:211-223) is written
\* into the optimizer. epoch -1 is the not-yet-started value of
\* optimizer.py:218.
WarmUpLRStep(epoch) ==
    /\ warmup_scheduler.kind = "WarmUpLR"
    /\ LET r == WarmUpStep(warmup_scheduler, optimizers[1].param_groups, epoch)
       IN  /\ warmup_scheduler' = r.schedule
           /\ optimizers' = [optimizers EXCEPT ![1].param_groups = r.groups]
    /\ UNCHANGED <<sm_optimizer, evaluation_interval, scheduler, is_warmup,
                   sm_call, sm_hist>>
    /\ UNCHANGED <<optimizer, model_parameters, optimizer_params, grads,
                   om_call>>
    /\ UNCHANGED esVars

\* WarmUpLR.step() without an argument: the step index grows by one.
WarmUpLRStepNext ==
    /\ warmup_scheduler.last_epoch < MaxWarmupEpoch
    /\ WarmUpLRStep(warmup_scheduler.last_epoch + 1)

NextWU ==
    \/ \E total_iters \in WarmupLengths : WarmUpLRNew(total_iters)
    \/ \E epoch \in (0 - 1)..MaxWarmupEpoch : WarmUpLRStep(epoch)
    \/ WarmUpLRStepNext

InitSpecWU ==
    /\ InitES
    /\ patience = 3
    /\ min_loss_improvement = 5
    /\ \E lrs \in {<<a>> : a \in WarmUpBaseLrs}
                   \cup (WarmUpBaseLrs \X WarmUpBaseLrs) :
          optimizers = <<GroupedOptimizer(lrs)>>
    /\ optimizer = 0
    /\ model_parameters = NoParameters
    /\ optimizer_params = ConfigParams
    /\ grads = FALSE
    /\ om_call = NoOMCall
    /\ InitSM

SpecWU == InitSpecWU /\ [][NextWU]_vars

\* A whole training run: one OptimizerManager over a list of parameters,
\* one SchedulerManager wrapping its optimizer with a StepLR behind a
\* one-step warmup, then any interleaving of training steps, evaluation
\* points (scheduler_step with the next epoch number, check_early_stopping)
\* and state restores.
RunLosses == {90, 100}
RunSnapshots == {snapshot \in Snapshots : Len(snapshot.param_groups) = 1}

NextRun ==
    \/ \E interval \in {4} : SchedulerManagerInit(interval)
    \/ create_scheduler("StepLR", 1, 2, ConfigLr)
    \/ backward
    \/ step
    \/ zero_grad
    \/ \E metric \in {<<10>>} :
          /\ sm_hist.calls < MaxRunEvals
          /\ scheduler_step(sm_hist.calls + 1, metric, ConfigLr)
    \/ \E val_loss \in RunLosses :
          /\ Len(es_calls) < MaxRunEvals
          /\ check_early_stopping(val_loss)
    \/ \E snapshot \in RunSnapshots, names \in {{}, {"lr"}} :
          update_optimizer_state(snapshot, names)

InitSpecRun ==
    /\ InitES
    /\ patience = 1
    /\ min_loss_improvement = 5
    /\ Constructed("SGD", 1)
    /\ InitSM

SpecRun == InitSpecRun /\ [][NextRun]_vars

\* ------------------------------------------- claims on early stopping
IsPrefixOf(s, t) == Len(s) <= Len(t) /\ s = SubSeq(t, 1, Len(s))

\* C1: once early_stop is true (the value check_early_stopping returns),
\* every later call leaves it true, whatever val_loss is passed, including
\* an improving loss that resets the counter to 0.
C1_EarlyStopLatched == [][early_stop => early_stop']_vars

\* A stopped manager whose latest call was an improvement (counter reset).
C1_Witness ==
    /\ early_stop
    /\ early_stop_counter = 0
    /\ Len(es_calls) >= 2
    /\ best_loss = es_calls[Len(es_calls)]

\* C2: each call either records an improvement (val_loss strictly below
\* best_loss - min_loss_improvement, or best_loss still +infinity): best_loss
\* becomes val_loss and the counter 0; or it leaves best_loss alone and adds
\* exactly 1 to the counter. After the call, counter >= patience implies
\* early_stop.
C2_TransitionRule ==
    [][\A v \in Losses :
         es_calls' = Append(es_calls, v) =>
           /\ (best_loss = Inf \/ v < best_loss - min_loss_improvement) =>
                 (best_loss' = v /\ early_stop_counter' = 0)
           /\ (best_loss # Inf /\ v >= best_loss - min_loss_improvement) =>
                 (best_loss' = best_loss
                  /\ early_stop_counter' = early_stop_counter + 1)
           /\ early_stop_counter' >= patience => early_stop']_vars

\* A loss exactly equal to best_loss - min_loss_improvement was counted as
\* no improvement.
C2_Witness ==
    /\ min_loss_improvement = 5
    /\ es_calls = <<100, 95>>
    /\ best_loss = 100
    /\ early_stop_counter = 1

C3Losses == <<100, 90, 90, 90, 90, 80>>

C3Run ==
    /\ patience = 3
    /\ min_loss_improvement = 5
    /\ IsPrefixOf(es_calls, C3Losses)

\* C3 as stated: with patience 3 and min_loss_improvement 0.5, on the losses
\* 10, 9, 9, 9, 9 early_stop is false after calls 1 to 3 and true from the
\* 4th call on, also after a further improving loss.
C3_StopsAtFourthCall == C3Run => (early_stop <=> Len(es_calls) >= 4)

\* C3 as amended: the second loss (9 < 10 - 0.5) is an improvement too, so
\* only calls 3 to 5 fail to improve: early_stop is false after calls 1 to 4,
\* true at the 5th call and still true after a further improving loss (8).
C3_StopsAtFifthCall == C3Run => (early_stop <=> Len(es_calls) >= 5)

C3_Witness ==
    /\ C3Run
    /\ es_calls = C3Losses
    /\ early_stop
    /\ early_stop_counter = 0
    /\ best_loss = 80

C4Case(v) ==
    /\ best_loss = 100
    /\ min_loss_improvement = 5
    /\ es_calls' = Append(es_calls, v)

\* C4 as stated: with best_loss 10 and min_loss_improvement 0.5 neither 9.4
\* nor 9.6 is an improvement: best_loss stays 10 and the counter grows by 1.
C4_NeitherImproves ==
    [][\A v \in {94, 96} :
         C4Case(v) => (best_loss' = 100
                       /\ early_stop_counter' = early_stop_counter + 1)]_vars

\* C4 as amended: 9.4 is below 10 - 0.5 and is an improvement (best_loss
\* becomes 9.4, counter 0); 9.6 and the boundary 9.5 are not (best_loss stays
\* 10, counter grows by 1).
C4_StrictBoundary ==
    [][/\ C4Case(94) => (best_loss' = 94 /\ early_stop_counter' = 0)
       /\ \A v \in {95, 96} :
            C4Case(v) => (best_loss' = 100
                          /\ early_stop_counter' = early_stop_counter + 1)]_vars

\* 9.6 was rejected (counter 1) and then 9.4 accepted against best 10.
C4_Witness ==
    /\ min_loss_improvement = 5
    /\ es_calls = <<100, 96, 94>>
    /\ best_loss = 94
    /\ early_stop_counter = 0

\* ------------------------------------------------- claims on schedules
\* The step taken is a scheduler_step call.
StepCalled == sm_call'.op = "scheduler_step" /\ sm_hist'.calls = sm_hist.calls + 1

\* The call being made runs the warmup test of optimizer.py:296 to true.
WarmupWindow ==
    is_warmup /\ sm_call'.epoch <= warmup_scheduler.total_iters

\* C5 as stated: for every sequence of scheduler_step calls, once a call
\* has stepped the main schedule no later call is delegated to the warmup
\* schedule.
C5_NeverBackToWarmup ==
    [][(StepCalled /\ scheduler.last_epoch > 0) =>
          sm_call'.delegate # "warmup"]_vars

\* C5 as amended: the same for every sequence of calls whose current_epoch
\* arguments never decrease.
C5_NeverBackToWarmupIfIncreasing ==
    [][(StepCalled /\ scheduler.last_epoch > 0 /\ sm_hist'.increasing) =>
          sm_call'.delegate # "warmup"]_vars

\* Warmup steps, then at least two main steps, epochs never decreasing.
C5_Witness ==
    /\ is_warmup
    /\ warmup_scheduler.last_epoch > 0
    /\ scheduler.last_epoch >= 2
    /\ sm_hist.increasing
    /\ sm_call.delegate = "main"

\* What one successful scheduler_step call does: inside the warmup window
\* the warmup schedule's step index becomes current_epoch and the main
\* schedule is untouched; otherwise the main schedule takes one step and the
\* warmup schedule is untouched.
StepsExactlyOne ==
    (StepCalled /\ sm_call'.result = "ok") =>
        IF WarmupWindow
        THEN /\ warmup_scheduler'.last_epoch = sm_call'.epoch
             /\ scheduler' = scheduler
        ELSE /\ scheduler'.last_epoch = scheduler.last_epoch + 1
             /\ warmup_scheduler' = warmup_scheduler

\* C6 as stated: every successful call steps exactly one schedule as above,
\* and the number of main-schedule steps equals the number of calls with
\* current_epoch > warmup_steps.
C6_DelegationAndPastCount ==
    [][/\ StepsExactlyOne
       /\ (StepCalled /\ scheduler'.kind # "None") =>
             scheduler'.last_epoch = sm_hist'.past_calls]_vars

\* C6 as amended: every successful call steps exactly one schedule as
\* above, and the number of main-schedule steps equals the number of
\* successful calls made with no warmup active or with
\* current_epoch > warmup_steps.
C6_DelegationAndFreeCount ==
    [][/\ StepsExactlyOne
       /\ (StepCalled /\ scheduler'.kind # "None") =>
             scheduler'.last_epoch = sm_hist'.free_calls]_vars

\* The first call jumped the warmup schedule to epoch 2, the second stepped
\* the main schedule.
C6_Witness ==
    /\ sm_hist.calls = 2
    /\ warmup_scheduler.last_epoch = 2
    /\ scheduler.last_epoch = 1
    /\ sm_call.delegate = "main"
    /\ sm_call.result = "ok"

\* C7: outside the warmup window, a plateau main schedule stepped with
\* metric None fails with the missing-metric error and nothing changes
\* (schedules, warmup flag, learning rates); with a metric it is stepped
\* with that metric; any other main schedule is stepped with or without a
\* metric.
C7_MissingMetricRaises ==
    [][(StepCalled /\ scheduler.kind # "None" /\ ~WarmupWindow) =>
          IF scheduler.kind = "ReduceLROnPlateau"
          THEN IF sm_call'.metric = <<>>
               THEN /\ sm_call'.result = "MissingMetric"
                    /\ scheduler' = scheduler
                    /\ warmup_scheduler' = warmup_scheduler
                    /\ is_warmup' = is_warmup
                    /\ optimizers' = optimizers
               ELSE /\ sm_call'.result = "ok"
                    /\ scheduler'.last_epoch = scheduler.last_epoch + 1
                    /\ scheduler'.best =
                          IF scheduler.best = Inf
                             \/ sm_call'.metric[1] < scheduler.best
                          THEN sm_call'.metric[1] ELSE scheduler.best
          ELSE /\ sm_call'.result = "ok"
               /\ scheduler'.last_epoch = scheduler.last_epoch + 1]_vars

\* Past the warmup window, a plateau schedule that has been stepped is then
\* stepped without a metric.
C7_Witness ==
    /\ sm_call.op = "scheduler_step"
    /\ sm_call.result = "MissingMetric"
    /\ scheduler.kind = "ReduceLROnPlateau"
    /\ scheduler.last_epoch >= 1
    /\ is_warmup
    /\ sm_call.epoch > warmup_scheduler.total_iters

\* C8: create_scheduler called with an unrecognized scheduler_type and
\* warmup_steps > 0 fails and leaves the SchedulerManager as it was (warmup
\* flag, warmup schedule, main schedule) and the optimizer's learning rates
\* unchanged.
C8_FailedCreateChangesNothing ==
    [][(sm_call'.op = "create_scheduler"
        /\ sm_call'.result = "UnsupportedScheduler"
        /\ sm_call'.warmup_steps > 0) =>
          /\ is_warmup' = is_warmup
          /\ warmup_scheduler' = warmup_scheduler
          /\ scheduler' = scheduler
          /\ optimizers' = optimizers]_vars

\* --------------------------------------- claims on the optimizer lifecycle
\* C9: when update_optimizer_state fails because the snapshot cannot be
\* loaded into the rebuilt optimizer, the manager still holds the optimizer
\* instance it had before the call, with the numeric state and learning
\* rates it had.
C9_FailedRestoreKeepsOptimizer ==
    [][(om_call'.op = "update_optimizer_state"
        /\ om_call'.result = "StateDictMismatch") =>
          (optimizer' = optimizer
           /\ optimizers'[optimizer'] = optimizers[optimizer])]_vars

\* C10: whenever create_optimizer calls a constructor with a mapping that
\* has all four keys, it passes no key the family rejects: SGD never gets
\* betas, Adam and AdamW never get momentum, every key that is passed
\* carries the caller's value, and only that one key is dropped.
C10_OnlyAcceptedKeysPassed ==
    (om_call.ctor /\ DOMAIN om_call.given = HyperKeys) =>
        LET passed == DOMAIN om_call.kwargs
        IN  /\ passed \subseteq Accepts(om_call.type)
            /\ om_call.type = "SGD" => passed = HyperKeys \ {"betas"}
            /\ om_call.type \in {"Adam", "AdamW"} =>
                  passed = HyperKeys \ {"momentum"}
            /\ \A k \in passed : om_call.kwargs[k] = om_call.given[k]

\* The latest call was an update_optimizer_state that returned.
Restored ==
    /\ om_call.op = "update_optimizer_state"
    /\ om_call.result = "ok"

\* C11: round trip. After an update_optimizer_state(S) that returns, called
\* with params_to_restore empty or None, serializing the manager's optimizer
\* gives S again: the same hyperparameters in every parameter group and the
\* same per-parameter state, whatever the optimizer held before the call.
C11_RoundTrip ==
    (Restored /\ om_call.restore = {}) =>
        state_dict(optimizers[optimizer]) = om_call.snapshot

\* The optimizer replaced had taken two steps at the configured rate; the
\* snapshot loaded holds other rates and a different step count.
C11_Witness ==
    /\ Restored
    /\ om_call.restore = {}
    /\ optimizer = 2
    /\ optimizers[1].steps = 2
    /\ optimizers[1].param_groups[1].lr = ConfigLr
    /\ Len(om_call.snapshot.param_groups) = 2
    /\ om_call.snapshot.steps = 3
    /\ om_call.snapshot.param_groups[1].lr # om_call.snapshot.param_groups[2].lr

\* C12: selective restore. After an update_optimizer_state(S, P) that
\* returns, with P non-empty, every parameter group of the manager's
\* optimizer carries, for every name of P that the first group of S holds,
\* the value it has there; every hyperparameter not named in P and the
\* per-parameter state are what loading S produced.
C12_SelectiveRestore ==
    (Restored /\ om_call.restore # {}) =>
        LET S == om_call.snapshot
            P == om_call.restore
            now == state_dict(optimizers[optimizer])
        IN  /\ DOMAIN now.param_groups = DOMAIN S.param_groups
            /\ \A g \in DOMAIN now.param_groups :
                  \A name \in DOMAIN S.param_groups[g] :
                     IF name \in P
                     THEN S.param_groups[1][name] # Unset =>
                             now.param_groups[g][name] = S.param_groups[1][name]
                     ELSE now.param_groups[g][name] = S.param_groups[g][name]
            /\ now.steps = S.steps

\* The snapshot's two groups hold different rates, both different from the
\* configured one; after restoring "lr" the second group carries the first
\* group's rate, and the step count is the snapshot's.
C12_Witness ==
    /\ Restored
    /\ "lr" \in om_call.restore
    /\ Len(om_call.snapshot.param_groups) = 2
    /\ om_call.snapshot.param_groups[1].lr = 12
    /\ om_call.snapshot.param_groups[2].lr = 24
    /\ om_call.kwargs["lr"] = ConfigLr
    /\ optimizers[optimizer].param_groups[2].lr = 12
    /\ optimizers[optimizer].steps = 3

\* ------------------------------------------------- claims on WarmUpLR
Min(a, b) == IF a <= b THEN a ELSE b

\* C13: after every construction or step of a WarmUpLR, each group's rate
\* is 0 at the not-yet-started index -1 and base_lr * min(1, s / total_iters)
\* at an index s >= 0; it never exceeds base_lr, equals base_lr at
\* s = total_iters and beyond, and does not decrease when s does not; with
\* total_iters 10 and base_lr 1.0 it is 0 at the start, 0.5 at step 5 and 1.0
\* at step 10 and later.
C13_WarmUpRate ==
    [][warmup_scheduler'.kind = "WarmUpLR" =>
          \A g \in DOMAIN warmup_scheduler'.base_lrs :
             LET b  == warmup_scheduler'.base_lrs[g]
                 s  == warmup_scheduler'.last_epoch
                 T  == warmup_scheduler'.total_iters
                 lr == optimizers'[1].param_groups[g].lr
             IN  /\ s = 0 - 1 => lr = 0
                 /\ s >= 0 => lr * T = b * Min(s, T)
                 /\ lr <= b
                 /\ s >= T => lr = b
                 /\ (warmup_scheduler.kind = "WarmUpLR"
                     /\ s >= warmup_scheduler.last_epoch) =>
                        lr >= optimizers[1].param_groups[g].lr
                 /\ (T = 10 /\ b = 10) =>
                        /\ s \in {0 - 1, 0} => lr = 0
                        /\ s = 5 => lr = 5
                        /\ s >= 10 => lr = 10]_vars

\* A ten-step warmup over two groups with base rates 1.0 and 4.0, stepped
\* past its window: both rates are clamped at their base rates.
C13_Witness ==
    /\ warmup_scheduler.kind = "WarmUpLR"
    /\ warmup_scheduler.total_iters = 10
    /\ warmup_scheduler.last_epoch = 12
    /\ warmup_scheduler.base_lrs = <<10, 40>>
    /\ optimizers[1].param_groups[1].lr = 10
    /\ optimizers[1].param_groups[2].lr = 40

\* ----------------------------------------- claims on SchedulerManager
\* The latest call was a create_scheduler that built a main schedule.
Created ==
    /\ sm_call.op = "create_scheduler"
    /\ sm_call.result = "ok"

\* C14: a plateau schedule built by create_scheduler with configured
\* patience p on a manager with evaluation_interval e >= 1 has patience
\* max(1, p // e), never below 1 (20 and 4 give 5; 20 and 30 give 1); a
\* StepLR, CosineAnnealingLR or OneCycleLR keeps the sizing keyword
\* (step_size, T_max, total_steps) it was given.
C14_PlateauPatienceRescaled ==
    Created =>
        LET p == sm_call.configured
            e == evaluation_interval
        IN  IF sm_call.type = "ReduceLROnPlateau"
            THEN /\ scheduler.patience >= 1
                 /\ p \div e >= 1 => scheduler.patience = p \div e
                 /\ p \div e < 1 => scheduler.patience = 1
                 /\ (p = 20 /\ e = 4) => scheduler.patience = 5
                 /\ (p = 20 /\ e = 30) => scheduler.patience = 1
            ELSE scheduler.period = p

\* Patience 20 configured, evaluation every 30 steps: the floor of 1.
C14_Witness ==
    /\ Created
    /\ sm_call.type = "ReduceLROnPlateau"
    /\ sm_call.configured = 20
    /\ evaluation_interval = 30
    /\ scheduler.patience = 1

\* C15: for every scheduler_step call that returns, delegated to the warmup
\* schedule or to the main one, a learning-rate-change notification is
\* emitted exactly when the first parameter group's rate after the step
\* differs from the rate read before it.
C15_NotifiedIffChanged ==
    [][(StepCalled /\ sm_call'.result = "ok") =>
          (sm_call'.notified <=>
              optimizers'[sm_optimizer].param_groups[1].lr
                 # optimizers[sm_optimizer].param_groups[1].lr)]_vars

\* ------------------------------------------------ claims on a whole run
\* C16: in every reachable state of a run, the optimizer whose rates the
\* SchedulerManager's schedules read and write is the instance the
\* OptimizerManager owns and steps, also after update_optimizer_state has
\* rebuilt the optimizer.
C16_SchedulerWrapsOwnedOptimizer ==
    sm_optimizer # 0 => sm_optimizer = optimizer

\* C17: for a manager built by initialize_optimizer_manager (over the
\* one-shot iterator model.parameters()), update_optimizer_state with a
\* snapshot of as many groups as the model has rebuilds an optimizer of the
\* same family over the same, non-empty, parameters: the call succeeds and
\* the manager's optimizer is the rebuilt one, with the snapshot loaded.
C17_RebuildOverSameParameters ==
    (/\ om_call.op = "update_optimizer_state"
     /\ model_parameters.kind = "generator"
     /\ Len(om_call.snapshot.param_groups) = model_parameters.groups) =>
        /\ om_call.result = "ok"
        /\ optimizer = Len(optimizers)
        /\ optimizer > 1
        /\ optimizers[optimizer].family = optimizers[1].family
        /\ Len(optimizers[optimizer].param_groups) = model_parameters.groups
        /\ optimizers[optimizer].steps = om_call.snapshot.steps

====
